---- MODULE Spec2Model ----
(***************************************************************************)
(* Model of the volume-alignment orchestration code.                       *)
(*                                                                         *)
(*  - the command-line driver, src/alignment_script_final.py: main() as a  *)
(*    sequence of steps, one per statement that calls external code;       *)
(*  - the pipeline components, src/xai_components/xai_volalign/            *)
(*    components.py: one action per execute method.                        *)
(*                                                                         *)
(* The external libraries (zarr, numpy, bigstream, VolAlign) are the       *)
(* environment: a call into them either returns a value or raises, and     *)
(* the model chooses among these outcomes nondeterministically.            *)
(***************************************************************************)
EXTENDS Integers, Sequences, FiniteSets, TLC

VARIABLES
    \* ---- driver: src/alignment_script_final.py, main() ----
    pc,             \* the statement main() executes next
    args,           \* the parsed command line
    matrix_file,    \* content of the file at --init_transform_path
    fix_image,      \* local fix_image
    move_image,     \* local move_image
    cluster_config, \* local cluster_config
    affine,         \* local affine
    deform,         \* local deform
    aligned,        \* local aligned
    calls,          \* the calls made into the distributed library, in order
    stdout,         \* what the driver printed, in order
    exc,            \* the exception that left main(), if any
    \* ---- components: src/xai_components/xai_volalign/components.py ----
    outPort,        \* value held by each component's output port
    lastExec        \* record of the most recent execute call

driverVars == <<pc, args, matrix_file, fix_image, move_image, cluster_config,
                affine, deform, aligned, calls, stdout, exc>>
compVars == <<outPort, lastExec>>
vars == <<pc, args, matrix_file, fix_image, move_image, cluster_config,
          affine, deform, aligned, calls, stdout, exc, outPort, lastExec>>

\* Python's None.
None == <<>>

(***************************************************************************)
(* Bounds of the model.                                                    *)
(***************************************************************************)
\* Largest number of lines of a matrix file.
MaxRows == 2
\* Largest number of whitespace-separated tokens on a line of a matrix file.
MaxCols == 2

(***************************************************************************)
(* The matrix text file and numpy.loadtxt.                                 *)
(***************************************************************************)
\* Tokens a line of the file may hold; "x" is not a number.
Tokens == {"0", "1", "x"}

SeqsUpTo(S, lo, hi) == UNION {[1..n -> S] : n \in lo..hi}

\* A file is a sequence of lines, a line a non-empty sequence of tokens.
FileLines == SeqsUpTo(Tokens, 1, MaxCols)
FileContents == SeqsUpTo(FileLines, 0, MaxRows)

\* What --init_transform_path names: a readable file with its lines, or
\* nothing readable.
MatrixFiles ==
    {[exists |-> TRUE, lines |-> f] : f \in FileContents}
        \cup {[exists |-> FALSE, lines |-> <<>>]}

\* float(tok) succeeds.
IsNumeric(tok) == tok \in {"0", "1"}
\* float(tok) for a numeric token.
FloatOf(tok) == IF tok = "0" THEN 0 ELSE 1

\* Every line has as many tokens as the first one.
SameColumns(file) == \A i \in 1..Len(file) : Len(file[i]) = Len(file[1])
AllNumeric(file) ==
    \A i \in 1..Len(file) : \A j \in 1..Len(file[i]) : IsNumeric(file[i][j])

\* numpy squeezes the axes of length 1 out of the result (ndmin = 0).
RECURSIVE Squeeze(_)
Squeeze(shape) ==
    IF shape = <<>> THEN <<>>
    ELSE IF Head(shape) = 1 THEN Squeeze(Tail(shape))
    ELSE <<Head(shape)>> \o Squeeze(Tail(shape))

\* np.loadtxt(path): OSError for a missing file, ValueError for a token that
\* is no number or for lines of different lengths; an empty file gives an
\* empty one-dimensional array; otherwise the array of the parsed numbers.
LoadTxt(f) ==
    LET file == f.lines IN
    IF ~f.exists THEN [raises |-> "OSError"]
    ELSE IF ~AllNumeric(file) \/ ~SameColumns(file) THEN [raises |-> "ValueError"]
    ELSE IF Len(file) = 0 THEN [raises |-> "", shape |-> <<0>>, data |-> <<>>]
    ELSE [raises |-> "",
          shape  |-> Squeeze(<<Len(file), Len(file[1])>>),
          data   |-> [i \in 1..Len(file) |->
                         [j \in 1..Len(file[i]) |-> FloatOf(file[i][j])]]]

(***************************************************************************)
(* The command line.                                                       *)
(***************************************************************************)
OutputDirs == {"out", "a/b"}
OutputNames == {"r1", "r1_aligned_round"}

DefaultSpacing == <<"0.1507417", "0.1507417", "0.1507417">>
DefaultBlocksize == <<512, 512, 512>>

\* The input volumes' paths are free: nothing keeps them apart from the paths
\* the driver derives from --output_dir and --output_name.
FixImagePaths == {"fix.zarr", "out/r1_deformation_field.zarr"}
MoveImagePaths == {"move.zarr", "out/r1_aligned_round.zarr"}

ParseArgs(fix, move, dir, name) ==
    [fix_image_path      |-> fix,
     move_image_path     |-> move,
     spacing             |-> DefaultSpacing,
     blocksize           |-> DefaultBlocksize,
     init_transform_path |-> "matrix.txt",
     output_dir          |-> dir,
     output_name         |-> name]

(***************************************************************************)
(* Values the driver builds.                                               *)
(***************************************************************************)
\* zarr.open(path, mode='r')
ZarrOpen(path) == [path |-> path, mode |-> "r"]

ClusterConfigAlign ==
    [n_workers          |-> 16,
     threads_per_worker |-> 1,
     memory_limit       |-> "70GB",
     environ            |-> [MALLOC_TRIM_THRESHOLD_ |-> 65536,
                             MKL_NUM_THREADS        |-> 6,
                             OMP_NUM_THREADS        |-> 6,
                             OPENBLAS_NUM_THREADS   |-> 6],
     worker_ttl         |-> None]

\* Variant: two threads per worker in the second stage.
ClusterConfigApplyTwoThreads ==
    [n_workers          |-> 8,
     threads_per_worker |-> 2,
     memory_limit       |-> "140GB",
     environ            |-> [MALLOC_TRIM_THRESHOLD_ |-> 65536,
                             MKL_NUM_THREADS        |-> 6,
                             OMP_NUM_THREADS        |-> 6,
                             OPENBLAS_NUM_THREADS   |-> 6],
     worker_ttl         |-> None]

\* Variant: the worker-ttl override is left out of the second configuration,
\* so the scheduler's default applies.
ClusterConfigApplyDefaultTtl ==
    [n_workers          |-> 8,
     threads_per_worker |-> 1,
     memory_limit       |-> "140GB",
     environ            |-> [MALLOC_TRIM_THRESHOLD_ |-> 65536,
                             MKL_NUM_THREADS        |-> 6,
                             OMP_NUM_THREADS        |-> 6,
                             OPENBLAS_NUM_THREADS   |-> 6],
     worker_ttl         |-> <<"5 minutes">>]

ClusterConfigApply ==
    [n_workers          |-> 8,
     threads_per_worker |-> 1,
     memory_limit       |-> "140GB",
     environ            |-> [MALLOC_TRIM_THRESHOLD_ |-> 65536,
                             MKL_NUM_THREADS        |-> 6,
                             OMP_NUM_THREADS        |-> 6,
                             OPENBLAS_NUM_THREADS   |-> 6],
     worker_ttl         |-> None]

DeformKwargs ==
    [alignment_spacing     |-> "0.4",
     smooth_sigmas         |-> <<0>>,
     control_point_spacing |-> "100.0",
     control_point_levels  |-> <<1>>]

Steps == << <<"deform", DeformKwargs>> >>

DeformPath(a) == a.output_dir \o "/" \o a.output_name \o "_deformation_field.zarr"
\* Variant: the second write path repeats the first one's suffix.
AlignedPathSameSuffix(a) ==
    a.output_dir \o "/" \o a.output_name \o "_deformation_field.zarr"
AlignedPath(a) == a.output_dir \o "/" \o a.output_name \o "_aligned_round.zarr"

\* print("deform done")
DeformDoneMessage == "deform done"

AlignFn == "distributed_piecewise_alignment_pipeline"
ApplyFn == "distributed_apply_transform"

AlignStaticTransforms(aff) == <<aff>>
\* Variant: the deformation field is listed before the affine.
ApplyTransformListSwapped(aff, def) == <<def, aff>>
ApplyTransformList(aff, def) == <<aff, def>>

AlignCall ==
    [fn           |-> AlignFn,
     fix          |-> fix_image,
     mov          |-> move_image,
     fix_spacing  |-> args.spacing,
     mov_spacing  |-> args.spacing,
     steps        |-> Steps,
     blocksize    |-> args.blocksize,
     overlap      |-> "0.3",
     rebalance_for_missing_neighbors |-> TRUE,
     write_path   |-> DeformPath(args),
     transforms   |-> AlignStaticTransforms(affine),
     cluster_kwargs |-> cluster_config]

ApplyCall ==
    [fn           |-> ApplyFn,
     fix          |-> fix_image,
     mov          |-> move_image,
     fix_spacing  |-> args.spacing,
     mov_spacing  |-> args.spacing,
     blocksize    |-> args.blocksize,
     write_path   |-> AlignedPath(args),
     transforms   |-> ApplyTransformList(affine, deform),
     cluster_kwargs |-> cluster_config]

\* What a call into an external library may raise.  KeyboardInterrupt is a
\* BaseException that is no Exception.
LibraryExceptions == {"RuntimeError", "KeyboardInterrupt"}
IsException(e) == e \in {"RuntimeError", "ValueError", "OSError"}

\* The deformation fields the alignment stage may return.
DeformValues == {[zarr |-> "field_1"], [zarr |-> "field_2"]}
AlignedValues == {[zarr |-> "aligned_1"]}

(***************************************************************************)
(* The driver, main().                                                     *)
(***************************************************************************)
DriverInit ==
    /\ pc = "open_fix"
    /\ \E fix \in FixImagePaths, move \in MoveImagePaths,
          dir \in OutputDirs, name \in OutputNames :
            args = ParseArgs(fix, move, dir, name)
    /\ matrix_file \in MatrixFiles
    /\ fix_image = None
    /\ move_image = None
    /\ cluster_config = None
    /\ affine = None
    /\ deform = None
    /\ aligned = None
    /\ calls = <<>>
    /\ stdout = <<>>
    /\ exc = None

\* An exception raised at statement `at` leaves main(): nothing catches it.
Raise(type, at) ==
    /\ exc' = [type |-> type, at |-> at]
    /\ pc' = "raised"

OpenFix ==
    /\ UNCHANGED compVars
    /\ pc = "open_fix"
    /\ \/ /\ fix_image' = ZarrOpen(args.fix_image_path)
          /\ pc' = "open_move"
          /\ UNCHANGED exc
       \/ /\ Raise("OSError", "open_fix")
          /\ UNCHANGED fix_image
    /\ UNCHANGED <<args, matrix_file, move_image, cluster_config, affine,
                   deform, aligned, calls, stdout>>

OpenMove ==
    /\ UNCHANGED compVars
    /\ pc = "open_move"
    /\ \/ /\ move_image' = ZarrOpen(args.move_image_path)
          /\ pc' = "config_align"
          /\ UNCHANGED exc
       \/ /\ Raise("OSError", "open_move")
          /\ UNCHANGED move_image
    /\ UNCHANGED <<args, matrix_file, fix_image, cluster_config, affine,
                   deform, aligned, calls, stdout>>

ConfigAlign ==
    /\ UNCHANGED compVars
    /\ pc = "config_align"
    /\ cluster_config' = ClusterConfigAlign
    /\ pc' = "loadtxt"
    /\ UNCHANGED <<args, matrix_file, fix_image, move_image, affine, deform,
                   aligned, calls, stdout, exc>>

LoadAffine ==
    /\ UNCHANGED compVars
    /\ pc = "loadtxt"
    /\ LET r == LoadTxt(matrix_file) IN
         IF r.raises # ""
         THEN /\ Raise(r.raises, "loadtxt")
              /\ UNCHANGED affine
         ELSE /\ affine' = [shape |-> r.shape, data |-> r.data]
              /\ pc' = "align"
              /\ UNCHANGED exc
    /\ UNCHANGED <<args, matrix_file, fix_image, move_image, cluster_config,
                   deform, aligned, calls, stdout>>

\* Variant: the failure of the alignment call is swallowed and main() goes on.
AlignStageSwallows ==
    /\ UNCHANGED compVars
    /\ pc = "align"
    /\ calls' = Append(calls, AlignCall)
    /\ \/ \E d \in DeformValues :
            /\ deform' = d
            /\ stdout' = Append(stdout, DeformDoneMessage)
       \/ UNCHANGED <<deform, stdout>>
    /\ pc' = "config_apply"
    /\ UNCHANGED <<args, matrix_file, fix_image, move_image, cluster_config,
                   affine, aligned, exc>>

AlignStage ==
    /\ UNCHANGED compVars
    /\ pc = "align"
    /\ calls' = Append(calls, AlignCall)
    /\ \/ \E d \in DeformValues :
            /\ deform' = d
            /\ stdout' = Append(stdout, DeformDoneMessage)
            /\ pc' = "config_apply"
            /\ UNCHANGED exc
       \/ \E e \in LibraryExceptions :
            /\ Raise(e, "align")
            /\ UNCHANGED <<deform, stdout>>
    /\ UNCHANGED <<args, matrix_file, fix_image, move_image, cluster_config,
                   affine, aligned>>

ConfigApply ==
    /\ UNCHANGED compVars
    /\ pc = "config_apply"
    /\ cluster_config' = ClusterConfigApply
    /\ pc' = "apply"
    /\ UNCHANGED <<args, matrix_file, fix_image, move_image, affine, deform,
                   aligned, calls, stdout, exc>>

\* Variant: the call is wrapped in try/except that prints the error and
\* re-raises, as the components do.
ApplyStageLogs ==
    /\ UNCHANGED compVars
    /\ pc = "apply"
    /\ calls' = Append(calls, ApplyCall)
    /\ \/ \E v \in AlignedValues :
            /\ aligned' = v
            /\ pc' = "done"
            /\ UNCHANGED <<exc, stdout>>
       \/ \E e \in LibraryExceptions :
            /\ Raise(e, "apply")
            /\ stdout' = Append(stdout, "Error during transform: " \o e)
            /\ UNCHANGED aligned
    /\ UNCHANGED <<args, matrix_file, fix_image, move_image, cluster_config,
                   affine, deform>>

ApplyStage ==
    /\ UNCHANGED compVars
    /\ pc = "apply"
    /\ calls' = Append(calls, ApplyCall)
    /\ \/ \E v \in AlignedValues :
            /\ aligned' = v
            /\ pc' = "done"
            /\ UNCHANGED exc
       \/ \E e \in LibraryExceptions :
            /\ Raise(e, "apply")
            /\ UNCHANGED aligned
    /\ UNCHANGED <<args, matrix_file, fix_image, move_image, cluster_config,
                   affine, deform, stdout>>

DriverNext ==
    \/ OpenFix
    \/ OpenMove
    \/ ConfigAlign
    \/ LoadAffine
    \/ AlignStage
    \/ ConfigApply
    \/ ApplyStage

CompIdle ==
    /\ outPort = [c \in {"LinearAlignmentTuning", "ReorientVolume"} |-> None]
    /\ lastExec = None

Init == DriverInit /\ CompIdle

Next == DriverNext

Spec == Init /\ [][Next]_vars

(***************************************************************************)
(* The pipeline components.                                                *)
(*                                                                         *)
(* A component is an object whose input ports the framework fills before   *)
(* it calls execute; the same object may be executed again.  lastExec      *)
(* records the most recent execute call: the component, the values of its  *)
(* input ports, the outcome of the wrapped library call and the trace of   *)
(* what execute did (library calls, port assignments, prints, the raise).  *)
(***************************************************************************)
\* Python values that may stand where None may stand too.
PyInt(n) == [int |-> n]
PyFloat(s) == [float |-> s]
PyList(s) == [list |-> s]
\* np.array(x)
NpArray(x) == [ndarray |-> x]

\* Components that declare an output port (OutArg).
OutputComponents == {"LinearAlignmentTuning", "ReorientVolume"}

\* What the wrapped library call does: it returns one of `results`, or raises.
LibOutcomes(results) ==
    {[kind |-> "return", value |-> v] : v \in results}
        \cup {[kind |-> "raise", exc |-> e] : e \in LibraryExceptions}

\* Trace events.
CallEv(fn, posargs, kwargs) ==
    [ev |-> "call", fn |-> fn, args |-> posargs, kwargs |-> kwargs]
PrintEv(text) == [ev |-> "print", text |-> text]
AssignEv(port, value) == [ev |-> "assign", port |-> port, value |-> value]
RaiseEv(e) == [ev |-> "raise", exc |-> e]

\* str(e) of an exception.
StrOf(e) == e

\* Variant: the handler prints and does not re-raise.
TryExceptSwallows(call, outcome, onSuccess, errPrefix) ==
    IF outcome.kind = "return" THEN <<call>> \o onSuccess
    ELSE IF IsException(outcome.exc)
         THEN <<call, PrintEv(errPrefix \o StrOf(outcome.exc))>>
         ELSE <<call, RaiseEv(outcome.exc)>>

\* try: <call>; <onSuccess>  except Exception as e: print(...{e}); raise
\* An exception that is no Exception passes the handler by.
TryExcept(call, outcome, onSuccess, errPrefix) ==
    IF outcome.kind = "return" THEN <<call>> \o onSuccess
    ELSE IF IsException(outcome.exc)
         THEN <<call, PrintEv(errPrefix \o StrOf(outcome.exc)), RaiseEv(outcome.exc)>>
         ELSE <<call, RaiseEv(outcome.exc)>>

\* Variant: `value or default` - a falsy value is replaced too.
DefaultIfFalsy(value, default) ==
    IF value \in {None, PyInt(0), PyFloat("0.0"), PyList(<<>>)} THEN default ELSE value

\* value if value is not None else default
DefaultIfNone(value, default) ==
    IF value # None THEN value ELSE default

\* Variant: the port is assigned whatever happened, None after a failure.
PortAfterAlwaysAssigned(port, comp, outcome) ==
    [port EXCEPT ![comp] = IF outcome.kind = "return" THEN outcome.value ELSE None]

\* Variant: the assignment of the result to the port is missing.
PortAfterNeverAssigned(port, comp, outcome) == port

\* self.<port>.value = result, reached only when the call returned.
PortAfter(port, comp, outcome) ==
    IF outcome.kind = "return"
    THEN [port EXCEPT ![comp] = outcome.value]
    ELSE port

ExecRecord(comp, inputs, outcome, trace) ==
    [comp |-> comp, inputs |-> inputs, outcome |-> outcome, trace |-> trace]

\* ---- input port values ----
OptInts == {None, PyInt(0), PyInt(1), PyInt(2)}
OptOverlaps == {None, PyFloat("0.0"), PyFloat("0.05"), PyFloat("0.1")}
OptOrders == {None, PyInt(0), PyInt(1), PyInt(3)}
OptSteps == {None, PyList(<<>>), PyList(<<"rigid">>)}
OptInverts == {None, PyList(<<TRUE, FALSE>>)}
XmlFiles == {"dataset.xml", "other.xml"}
TiffFiles == {"a.tif", "b.tif"}
\* Results of the two library functions whose result is kept.
AffineResults == {[matrix |-> "A1"], [matrix |-> "A2"]}
VolumeResults == {[volume |-> "V1"], [volume |-> "V2"]}
\* A function without a return statement returns None.
NoResult == {None}

ExecCreateBDVXML ==
    /\ UNCHANGED driverVars
    /\ \E nch \in OptInts, ovl \in OptOverlaps, out \in LibOutcomes(NoResult) :
         LET in == [tiles_folder |-> "tiles", fov_list |-> <<"fov0.tif", "fov1.tif">>,
                    offset_array |-> <<<<0, 0, 0>>, <<1, 0, 0>>>>,
                    voxel_size |-> <<"0.4", "0.16", "0.16">>,
                    nchannels |-> nch, overlap_percentage |-> ovl]
             nchannels == DefaultIfNone(in.nchannels, PyInt(1))
             increment_scale == DefaultIfNone(in.overlap_percentage, PyFloat("0.05"))
             call == CallEv("create_bdv_xml", <<>>,
                            [tiles_folder    |-> in.tiles_folder,
                             fov_list        |-> in.fov_list,
                             offset_array    |-> NpArray(in.offset_array),
                             voxel_size      |-> in.voxel_size,
                             nchannels       |-> nchannels,
                             increment_scale |-> increment_scale])
         IN lastExec' = ExecRecord("CreateBDVXML", in, out,
                TryExcept(call, out,
                    <<PrintEv("BDV/XML file successfully created in " \o in.tiles_folder)>>,
                    "Error during BDV/XML creation: "))
    /\ UNCHANGED outPort

ExecStitchTiles ==
    /\ UNCHANGED driverVars
    /\ \E xml \in XmlFiles, out \in LibOutcomes(NoResult) :
         LET in == [xml_file_path |-> xml, fiji_path |-> "/opt/fiji"]
             call == CallEv("stitch_tiles", <<in.xml_file_path, in.fiji_path>>, <<>>)
         IN lastExec' = ExecRecord("StitchTiles", in, out,
                TryExcept(call, out,
                    <<PrintEv("Tile stitching executed successfully using XML: "
                              \o in.xml_file_path \o " and Fiji: " \o in.fiji_path)>>,
                    "Error during tile stitching: "))
    /\ UNCHANGED outPort

\* Variant: the inverts port is handed on to blend_tiles.
ExecBlendTilesPassesInverts ==
    /\ UNCHANGED driverVars
    /\ \E xml \in XmlFiles, inv \in OptInverts, out \in LibOutcomes(NoResult) :
         LET in == [xml_file |-> xml, output_folder |-> "blended",
                    voxel_size |-> <<"0.4", "0.16", "0.16">>,
                    channels_names |-> <<"CH1", "CH2">>, inverts |-> inv]
             call == CallEv("blend_tiles", <<>>,
                            [xml_file      |-> in.xml_file,
                             output_folder |-> in.output_folder,
                             voxel_size    |-> in.voxel_size,
                             channels      |-> in.channels_names,
                             inverts       |-> in.inverts])
         IN lastExec' = ExecRecord("BlendTiles", in, out,
                TryExcept(call, out, <<>>, "Error during tile blending: "))
    /\ UNCHANGED outPort

ExecBlendTiles ==
    /\ UNCHANGED driverVars
    /\ \E xml \in XmlFiles, inv \in OptInverts, out \in LibOutcomes(NoResult) :
         LET in == [xml_file |-> xml, output_folder |-> "blended",
                    voxel_size |-> <<"0.4", "0.16", "0.16">>,
                    channels_names |-> <<"CH1", "CH2">>, inverts |-> inv]
             call == CallEv("blend_tiles", <<>>,
                            [xml_file      |-> in.xml_file,
                             output_folder |-> in.output_folder,
                             voxel_size    |-> in.voxel_size,
                             channels      |-> in.channels_names])
         IN lastExec' = ExecRecord("BlendTiles", in, out,
                TryExcept(call, out, <<>>, "Error during tile blending: "))
    /\ UNCHANGED outPort

ExecVoxelSpacingResample ==
    /\ UNCHANGED driverVars
    /\ \E f \in TiffFiles, out \in LibOutcomes(VolumeResults) :
         LET in == [input_file |-> f, output_path |-> "resampled.tif",
                    original_spacing |-> <<"0.4", "0.16", "0.16">>,
                    target_spacing |-> <<"0.2", "0.2", "0.2">>]
             call == CallEv("voxel_spacing_resample", <<>>,
                            [input_file       |-> in.input_file,
                             output_path      |-> in.output_path,
                             original_spacing |-> in.original_spacing,
                             target_spacing   |-> in.target_spacing])
         IN lastExec' = ExecRecord("VoxelSpacingResample", in, out,
                TryExcept(call, out,
                    <<PrintEv("Resampling completed. Resampled image saved to "
                              \o in.output_path)>>,
                    "Error during voxel spacing resampling: "))
    /\ UNCHANGED outPort

ExecApplyManualAlignment ==
    /\ UNCHANGED driverVars
    /\ \E fixed \in TiffFiles, moving \in TiffFiles, out \in LibOutcomes(NoResult) :
         LET in == [matrix_file_path |-> "matrix.txt",
                    fixed_volume_path |-> fixed,
                    moving_volume_path |-> moving,
                    resample_output_fixed_path |-> "fixed_out.tif",
                    resample_output_moving_path |-> "moving_out.tif"]
             call == CallEv("apply_manual_alignment", <<>>,
                            [matrix_file_path  |-> in.matrix_file_path,
                             fixed_slice_path  |-> in.fixed_volume_path,
                             moving_slice_path |-> in.moving_volume_path,
                             resample_output_fixed_path  |-> in.resample_output_fixed_path,
                             resample_output_moving_path |-> in.resample_output_moving_path])
         IN lastExec' = ExecRecord("ApplyManualAlignment", in, out,
                TryExcept(call, out, <<PrintEv("Alignment applied successfully.")>>,
                          "Error during alignment: "))
    /\ UNCHANGED outPort

ExecLinearAlignmentTuning ==
    /\ UNCHANGED driverVars
    /\ \E st \in OptSteps, out \in LibOutcomes(AffineResults) :
         LET in == [fixed_path |-> "a.tif", moving_path |-> "b.tif",
                    fixed_spacing |-> <<"0.4", "0.16", "0.16">>,
                    moving_spacing |-> <<"0.4", "0.16", "0.16">>,
                    output_matrix_file |-> "matrix.txt", steps |-> st]
             steps == DefaultIfNone(in.steps, None)
             call == CallEv("linear_alignment_tuning", <<>>,
                            [fixed_path         |-> in.fixed_path,
                             moving_path        |-> in.moving_path,
                             fixed_spacing      |-> in.fixed_spacing,
                             moving_spacing     |-> in.moving_spacing,
                             output_matrix_file |-> in.output_matrix_file,
                             steps              |-> steps])
         IN /\ lastExec' = ExecRecord("LinearAlignmentTuning", in, out,
                  TryExcept(call, out,
                      IF out.kind = "return"
                      THEN <<AssignEv("affine_matrix", out.value),
                             PrintEv("Affine transformation matrix computed and saved to "
                                     \o in.output_matrix_file)>>
                      ELSE <<>>,
                      "Error during linear alignment tuning: "))
            /\ outPort' = PortAfter(outPort, "LinearAlignmentTuning", out)

ExecConvertZarrToTiff ==
    /\ UNCHANGED driverVars
    /\ \E tiff \in TiffFiles, out \in LibOutcomes(NoResult) :
         LET in == [zarr_file |-> "vol.zarr", tiff_file |-> tiff]
             call == CallEv("convert_zarr_to_tiff", <<in.zarr_file, in.tiff_file>>, <<>>)
         IN lastExec' = ExecRecord("ConvertZarrToTiff", in, out,
                TryExcept(call, out,
                    <<PrintEv("Converted Zarr file " \o in.zarr_file
                              \o " to TIFF file " \o in.tiff_file)>>,
                    "Error in convert_zarr_to_tiff: "))
    /\ UNCHANGED outPort

ExecConvertTiffToZarr ==
    /\ UNCHANGED driverVars
    /\ \E tiff \in TiffFiles, out \in LibOutcomes(NoResult) :
         LET in == [tiff_file |-> tiff, zarr_file |-> "vol.zarr"]
             call == CallEv("convert_tiff_to_zarr", <<in.tiff_file, in.zarr_file>>, <<>>)
         IN lastExec' = ExecRecord("ConvertTiffToZarr", in, out,
                TryExcept(call, out,
                    <<PrintEv("Converted TIFF file " \o in.tiff_file
                              \o " to Zarr file " \o in.zarr_file)>>,
                    "Error in convert_tiff_to_zarr: "))
    /\ UNCHANGED outPort

ExecDownsampleTiff ==
    /\ UNCHANGED driverVars
    /\ \E ord \in OptOrders, out \in LibOutcomes(NoResult) :
         LET in == [input_path |-> "a.tif", output_path |-> "small.tif",
                    factors |-> <<6, 6, 6>>, order |-> ord]
             order == DefaultIfNone(in.order, PyInt(1))
             call == CallEv("downsample_tiff",
                            <<in.input_path, in.output_path, in.factors, order>>, <<>>)
         IN lastExec' = ExecRecord("DownsampleTiff", in, out,
                TryExcept(call, out,
                    <<PrintEv("Downsampled TIFF from " \o in.input_path
                              \o " and saved to " \o in.output_path)>>,
                    "Error in downsample_tiff: "))
    /\ UNCHANGED outPort

ExecStackTiffImages ==
    /\ UNCHANGED driverVars
    /\ \E f1 \in TiffFiles, f2 \in TiffFiles, out \in LibOutcomes(NoResult) :
         LET in == [file1 |-> f1, file2 |-> f2, output_file |-> "stacked.tif"]
             call == CallEv("stack_tiff_images",
                            <<in.file1, in.file2, in.output_file>>, <<>>)
         IN lastExec' = ExecRecord("StackTiffImages", in, out,
                TryExcept(call, out,
                    <<PrintEv("Stacked TIFF images from " \o in.file1 \o " and "
                              \o in.file2 \o " and saved to " \o in.output_file)>>,
                    "Error in stack_tiff_images: "))
    /\ UNCHANGED outPort

ExecReorientVolume ==
    /\ UNCHANGED driverVars
    /\ \E rot \in {PyInt(0), PyInt(90)}, flip \in BOOLEAN, out \in LibOutcomes(VolumeResults) :
         LET in == [input_path |-> "a.tif", output_path |-> "reoriented.tif",
                    rotation |-> rot, flip |-> flip]
             call == CallEv("reorient_volume_and_save_tiff",
                            <<in.input_path, in.output_path, in.rotation, in.flip>>, <<>>)
         IN /\ lastExec' = ExecRecord("ReorientVolume", in, out,
                  TryExcept(call, out,
                      IF out.kind = "return"
                      THEN <<AssignEv("reoriented_volume", out.value),
                             PrintEv("Reoriented volume from " \o in.input_path
                                     \o " saved to " \o in.output_path)>>
                      ELSE <<>>,
                      "Error in reorient_volume_and_save_tiff: "))
            /\ outPort' = PortAfter(outPort, "ReorientVolume", out)

\* The driver is not part of a component pipeline: its variables stay as
\* they are before main() is entered.
DriverNotRun ==
    /\ pc = "not_run"
    /\ args = ParseArgs("fix.zarr", "move.zarr", "out", "r1")
    /\ matrix_file = [exists |-> FALSE, lines |-> <<>>]
    /\ fix_image = None
    /\ move_image = None
    /\ cluster_config = None
    /\ affine = None
    /\ deform = None
    /\ aligned = None
    /\ calls = <<>>
    /\ stdout = <<>>
    /\ exc = None

CompInit == DriverNotRun /\ CompIdle

CompNext ==
    \/ ExecCreateBDVXML
    \/ ExecStitchTiles
    \/ ExecBlendTiles
    \/ ExecVoxelSpacingResample
    \/ ExecApplyManualAlignment
    \/ ExecLinearAlignmentTuning
    \/ ExecConvertZarrToTiff
    \/ ExecConvertTiffToZarr
    \/ ExecDownsampleTiff
    \/ ExecStackTiffImages
    \/ ExecReorientVolume

CompSpec == CompInit /\ [][CompNext]_vars

(***************************************************************************)
(* Claims about the driver.                                                *)
(***************************************************************************)
CallsOf(fn) == {i \in 1..Len(calls) : calls[i].fn = fn}
Stages == {"align", "apply"}
Terminated == pc \in {"raised", "done"} /\ ~ENABLED Next

\* C1: the stages of main() occur in the order open both volumes, load the
\* affine, alignment, transform application; the transform is applied only
\* after the alignment returned; if the alignment raises the transform is
\* never applied and the run ends; no stage is invoked twice.
C1_StageOrder ==
    /\ move_image # None => fix_image # None
    /\ affine # None => move_image # None
    /\ calls # <<>> => affine # None /\ calls[1].fn = AlignFn
    /\ Cardinality(CallsOf(AlignFn)) <= 1
    /\ Cardinality(CallsOf(ApplyFn)) <= 1
    /\ Len(calls) <= 2
    /\ Len(calls) = 2 => calls[2].fn = ApplyFn /\ deform # None
    /\ deform # None => CallsOf(AlignFn) # {}
    /\ aligned # None => CallsOf(ApplyFn) # {}
    /\ (exc # None /\ exc.at = "align") => CallsOf(ApplyFn) = {} /\ Terminated
    /\ exc # None => Terminated
    /\ pc = "done" => Terminated /\ Len(calls) = 2

\* C1 witness: a run that went through both stages and completed.
C1_Witness ==
    pc = "done" /\ Len(calls) = 2 /\ aligned # None

\* The file is malformed: a token is no number, or the lines differ in length.
Malformed(f) == f.exists /\ (~AllNumeric(f.lines) \/ ~SameColumns(f.lines))
\* The file holds a square matrix: as many lines as tokens on each line.
SquareMatrix(f) ==
    /\ f.exists
    /\ Len(f.lines) >= 1
    /\ \A i \in 1..Len(f.lines) : Len(f.lines[i]) = Len(f.lines)

\* C2 (as claimed): a matrix file that is malformed or holds a non-square
\* matrix makes the driver fail before any distributed stage is called.
C2_FailFast ==
    (matrix_file.exists /\ (Malformed(matrix_file) \/ ~SquareMatrix(matrix_file)))
        => calls = <<>>

\* Something other than the driver's progress message was printed.
ErrorLogged == \E i \in 1..Len(stdout) : stdout[i] # DeformDoneMessage
StageFailed == exc # None /\ exc.at \in Stages

\* C5 (as claimed): a failure of a distributed stage is caught at its call
\* site and logged before it is raised again.
C5_CaughtAndLogged == StageFailed => ErrorLogged

\* C5 (amended): a failure of a distributed stage is not caught by the
\* driver: it leaves main() as raised, the driver logs nothing about it, and
\* the run ends with the failing stage called once.
C5_PropagatesUnlogged ==
    StageFailed =>
        /\ ~ErrorLogged
        /\ Terminated
        /\ exc.type \in LibraryExceptions
        /\ calls[Len(calls)].fn = (IF exc.at = "align" THEN AlignFn ELSE ApplyFn)
        /\ Cardinality(CallsOf(calls[Len(calls)].fn)) = 1

\* C5 witness: the transform-application stage raised.
C5_Witness == exc # None /\ exc.at = "apply" /\ Len(calls) = 2

\* The array np.loadtxt returns for the file of this run.
LoadedAffine ==
    [shape |-> LoadTxt(matrix_file).shape, data |-> LoadTxt(matrix_file).data]

\* C6: the transform list given to the transform application has exactly two
\* elements, the affine loaded from the file and then the deformation field
\* the alignment stage returned; the alignment stage gets that affine as its
\* only static transform.
C6_TransformList ==
    \A i \in 1..Len(calls) :
        /\ calls[i].fn = AlignFn =>
              /\ Len(calls[i].transforms) = 1
              /\ calls[i].transforms[1] = LoadedAffine
        /\ calls[i].fn = ApplyFn =>
              /\ Len(calls[i].transforms) = 2
              /\ calls[i].transforms[1] = LoadedAffine
              /\ calls[i].transforms[1] = calls[1].transforms[1]
              /\ calls[i].transforms[2] = deform
              /\ deform \in DeformValues

\* C6 witness: the transform application was called with a 2x2 affine.
C6_Witness ==
    /\ CallsOf(ApplyFn) # {}
    /\ affine # None
    /\ affine.shape = <<2, 2>>
    /\ deform = [zarr |-> "field_2"]

\* C7: the alignment stage writes {output_dir}/{output_name}_deformation_field.zarr,
\* the transform application {output_dir}/{output_name}_aligned_round.zarr;
\* the two paths differ and the driver uses no other output path.
C7_WritePaths ==
    LET prefix == args.output_dir \o "/" \o args.output_name IN
    /\ \A i \in 1..Len(calls) :
          /\ calls[i].fn = AlignFn =>
                calls[i].write_path = prefix \o "_deformation_field.zarr"
          /\ calls[i].fn = ApplyFn =>
                calls[i].write_path = prefix \o "_aligned_round.zarr"
          /\ calls[i].fn \in {AlignFn, ApplyFn}
    /\ \A i, j \in 1..Len(calls) :
          i # j => calls[i].write_path # calls[j].write_path
    /\ (args.output_dir = "out" /\ args.output_name = "r1") =>
          \A i \in 1..Len(calls) :
              calls[i].write_path = (IF calls[i].fn = AlignFn
                                     THEN "out/r1_deformation_field.zarr"
                                     ELSE "out/r1_aligned_round.zarr")

\* C7 witness: both stages were called for an output name that itself ends
\* in one of the suffixes.
C7_Witness ==
    /\ Len(calls) = 2
    /\ args.output_name = "r1_aligned_round"
    /\ calls[2].write_path = "a/b/r1_aligned_round_aligned_round.zarr"

MathThreads(cfg) ==
    {cfg.environ.MKL_NUM_THREADS, cfg.environ.OMP_NUM_THREADS,
     cfg.environ.OPENBLAS_NUM_THREADS}

\* C9 (as claimed): in both stages threads_per_worker is 1 and the MKL,
\* OpenMP and OpenBLAS thread counts of the workers are 1.
C9_SingleThreaded ==
    \A i \in 1..Len(calls) :
        /\ calls[i].cluster_kwargs.threads_per_worker = 1
        /\ MathThreads(calls[i].cluster_kwargs) = {1}

\* C9 (amended): in both stages threads_per_worker is 1 and the MKL, OpenMP
\* and OpenBLAS thread counts of the workers are each set to 6.
C9_OneThreadSixMath ==
    \A i \in 1..Len(calls) :
        /\ calls[i].cluster_kwargs.threads_per_worker = 1
        /\ MathThreads(calls[i].cluster_kwargs) = {6}

\* C9 witness: both stages were called, each with its own configuration.
C9_Witness ==
    /\ Len(calls) = 2
    /\ calls[1].cluster_kwargs.n_workers = 16
    /\ calls[2].cluster_kwargs.n_workers = 8

\* C10: the configuration handed to each stage has worker-ttl None.
C10_NoWorkerTtl ==
    \A i \in 1..Len(calls) : calls[i].cluster_kwargs.worker_ttl = None

\* C10 witness: the transform application was called with the second
\* configuration.
C10_Witness ==
    /\ CallsOf(ApplyFn) # {}
    /\ calls[2].cluster_kwargs = ClusterConfigApply
    /\ calls[1].cluster_kwargs = ClusterConfigAlign

\* The store paths the driver has handed to a stage as its write_path.
WriteTargets == {calls[i].write_path : i \in 1..Len(calls)}
\* The store paths of the two input volumes.
InputStores == {args.fix_image_path, args.move_image_path}

\* C11 (as claimed): the input volumes are opened in read mode and are never
\* a write target of the driver; the deformation field is written only by
\* the alignment stage and the aligned volume only by the transform
\* application, each at most once, and the transform application does not
\* write to the deformation field.
C11_Ownership ==
    /\ fix_image # None => fix_image.mode = "r"
    /\ move_image # None => move_image.mode = "r"
    /\ WriteTargets \cap InputStores = {}
    /\ \A i \in 1..Len(calls) :
          /\ calls[i].write_path = DeformPath(args) => calls[i].fn = AlignFn
          /\ calls[i].write_path = AlignedPath(args) => calls[i].fn = ApplyFn
          /\ calls[i].fn = ApplyFn => calls[i].write_path # DeformPath(args)
    /\ \A i, j \in 1..Len(calls) :
          i # j => calls[i].write_path # calls[j].write_path

(***************************************************************************)
(* Claims about the components.                                            *)
(***************************************************************************)
\* The library function each component wraps.
WrappedFn ==
    [c \in {"CreateBDVXML", "StitchTiles", "BlendTiles", "VoxelSpacingResample",
            "ApplyManualAlignment", "LinearAlignmentTuning", "ConvertZarrToTiff",
            "ConvertTiffToZarr", "DownsampleTiff", "StackTiffImages",
            "ReorientVolume"} |->
        CASE c = "CreateBDVXML" -> "create_bdv_xml"
          [] c = "StitchTiles" -> "stitch_tiles"
          [] c = "BlendTiles" -> "blend_tiles"
          [] c = "VoxelSpacingResample" -> "voxel_spacing_resample"
          [] c = "ApplyManualAlignment" -> "apply_manual_alignment"
          [] c = "LinearAlignmentTuning" -> "linear_alignment_tuning"
          [] c = "ConvertZarrToTiff" -> "convert_zarr_to_tiff"
          [] c = "ConvertTiffToZarr" -> "convert_tiff_to_zarr"
          [] c = "DownsampleTiff" -> "downsample_tiff"
          [] c = "StackTiffImages" -> "stack_tiff_images"
          [] c = "ReorientVolume" -> "reorient_volume_and_save_tiff"]

Executed == lastExec # None
Failed == Executed /\ lastExec.outcome.kind = "raise"
CallEvents(t) == SelectSeq(t, LAMBDA e : e.ev = "call")
RaiseEvents(t) == SelectSeq(t, LAMBDA e : e.ev = "raise")

\* The event prints an error message about exception e.
IsErrorLogOf(event, e) ==
    /\ event.ev = "print"
    /\ Len(event.text) > 5 + Len(StrOf(e))
    /\ SubSeq(event.text, 1, 5) = "Error"
    /\ SubSeq(event.text, Len(event.text) - Len(StrOf(e)) + 1, Len(event.text)) = StrOf(e)

\* One execute calls the wrapped function exactly once and first of all,
\* and raises nothing when the call returned.
CalledOnce ==
    Executed =>
        LET t == lastExec.trace IN
        /\ Len(CallEvents(t)) = 1
        /\ t[1].ev = "call"
        /\ t[1].fn = WrappedFn[lastExec.comp]
        /\ lastExec.outcome.kind = "return" => RaiseEvents(t) = <<>>

C4_FailedLeavesNoValue ==
    (Failed /\ lastExec.comp \in OutputComponents) => outPort[lastExec.comp] = None

\* C4 (amended): an execute whose wrapped call raises does not assign the
\* output port: after the call the port holds what it held before it, no
\* value if no earlier execute of the component succeeded and the earlier
\* result otherwise.
C4_FailedKeepsPort ==
    [][(lastExec' # None /\ lastExec'.outcome.kind = "raise") => outPort' = outPort]_vars

\* C4 witness: a LinearAlignmentTuning execute has failed on a component
\* whose port still holds the result of an earlier execute.
C4_Witness ==
    /\ Failed
    /\ lastExec.comp = "LinearAlignmentTuning"
    /\ outPort["LinearAlignmentTuning"] \in AffineResults
    /\ outPort["ReorientVolume"] = None

\* C8: the wrapped call receives the declared default for an optional port
\* that is None and the supplied value otherwise: nchannels 1,
\* overlap_percentage 0.05, order 1, steps None.
C8_Defaults ==
    Executed =>
        LET in == lastExec.inputs  call == lastExec.trace[1] IN
        /\ lastExec.comp = "CreateBDVXML" =>
              /\ call.kwargs.nchannels =
                    (IF in.nchannels = None THEN PyInt(1) ELSE in.nchannels)
              /\ call.kwargs.increment_scale =
                    (IF in.overlap_percentage = None THEN PyFloat("0.05")
                     ELSE in.overlap_percentage)
        /\ lastExec.comp = "DownsampleTiff" =>
              call.args[4] = (IF in.order = None THEN PyInt(1) ELSE in.order)
        /\ lastExec.comp = "LinearAlignmentTuning" =>
              call.kwargs.steps = in.steps

\* C8 witness: CreateBDVXML was executed with nchannels 0 and
\* overlap_percentage unset.
C8_Witness ==
    /\ Executed
    /\ lastExec.comp = "CreateBDVXML"
    /\ lastExec.inputs.nchannels = PyInt(0)
    /\ lastExec.inputs.overlap_percentage = None
    /\ lastExec.trace[1].kwargs.nchannels = PyInt(0)
    /\ lastExec.trace[1].kwargs.increment_scale = PyFloat("0.05")

\* The name of each component's output port.
OutPortName ==
    [c \in OutputComponents |->
        IF c = "LinearAlignmentTuning" THEN "affine_matrix" ELSE "reoriented_volume"]
AssignEvents(t) == SelectSeq(t, LAMBDA e : e.ev = "assign")

\* C12: after a successful execute of LinearAlignmentTuning or
\* ReorientVolume the output port equals the value the wrapped call of that
\* execute returned, and the port is assigned only after the call returned:
\* once, right after the call, and not at all when the call raised.
C12_PortHoldsResult ==
    (Executed /\ lastExec.comp \in OutputComponents) =>
        LET t == lastExec.trace  c == lastExec.comp IN
        IF lastExec.outcome.kind = "return"
        THEN /\ outPort[c] = lastExec.outcome.value
             /\ Len(t) >= 2
             /\ t[1].ev = "call"
             /\ t[2] = AssignEv(OutPortName[c], lastExec.outcome.value)
             /\ Len(AssignEvents(t)) = 1
        ELSE AssignEvents(t) = <<>>

\* C12 witness: a ReorientVolume execute succeeded on a component whose port
\* held another result before, and the port now holds the new one.
C12_Witness ==
    /\ Executed
    /\ lastExec.comp = "ReorientVolume"
    /\ lastExec.outcome = [kind |-> "return", value |-> [volume |-> "V2"]]
    /\ outPort["ReorientVolume"] = [volume |-> "V2"]
    /\ outPort["LinearAlignmentTuning"] = [matrix |-> "A1"]

\* The input ports of BlendTiles other than inverts.
BlendInputsButInverts(in) ==
    <<in.xml_file, in.output_folder, in.voxel_size, in.channels_names>>

\* C13: BlendTiles.execute ignores inverts: two executions that agree on
\* xml_file, output_folder, voxel_size and channels_names and differ in
\* inverts pass identical arguments to blend_tiles.
C13_InvertsIgnored ==
    [][(/\ lastExec # None
        /\ lastExec' # None
        /\ lastExec.comp = "BlendTiles"
        /\ lastExec'.comp = "BlendTiles"
        /\ BlendInputsButInverts(lastExec.inputs) = BlendInputsButInverts(lastExec'.inputs)
        /\ lastExec.inputs.inverts # lastExec'.inputs.inverts)
       => lastExec'.trace[1] = lastExec.trace[1]]_vars

\* C13 witness: BlendTiles was executed with inverts set, and blend_tiles
\* was called without it.
C13_Witness ==
    /\ Executed
    /\ lastExec.comp = "BlendTiles"
    /\ lastExec.inputs.inverts = PyList(<<TRUE, FALSE>>)
    /\ lastExec.trace[1].fn = "blend_tiles"
    /\ lastExec.trace[1].args = <<>>
    /\ DOMAIN lastExec.trace[1].kwargs =
          {"xml_file", "output_folder", "voxel_size", "channels"}

====
